---- MODULE Spec2Model ----
(***************************************************************************)
(* CrewSplit, scripts/verify-math.py: the share normalizer                 *)
(* (normalize_shares and its four strategies), the balance accumulation    *)
(* pass of verify_and_calculate_trip and the greedy settlement loop of     *)
(* resolve_debts.                                                          *)
(*                                                                         *)
(* Money is integer minor units.  A percentage share is kept in hundredths *)
(* of a percentage point (3334 is the JSON number 33.34), a weight share   *)
(* is an integer weight.  The source computes exact_amounts in binary64    *)
(* floating point; the model keeps every such value as the exact rational  *)
(* num/den together with the rounding error err that the binary64          *)
(* evaluation adds to it (Binary64Err), so that floor and the comparison   *)
(* of fractional parts are those of the floating point values.             *)
(***************************************************************************)
EXTENDS Integers, Sequences, FiniteSets

\* ---------------------------------------------------------------- bounds

\* Most splits of one expense.
MaxSplits == 3
\* Most participants of a balance map handed to resolve_debts.
NumParticipants == 4
\* Most expenses of a ledger.
MaxExpenses == 2

\* ----------------------------------------------------------- input domains

Pids == {1, 2, 3}
Totals == {-100, 0, 2, 100, 40000}
PctShares == {3333, 3334, 5000, 5001}
WeightShares == {0, 1, 4}
Amounts == {40, 60}
ShareTypes == {"equal", "percentage", "weight", "amount", "other"}
BalanceValues == {-50, -30, -1, 0, 1, 20, 30, 80}
Names == <<"A", "B", "C", "D", "E", "F">>

\* -------------------------------------------------------------- helpers

Abs(x) == IF x < 0 THEN -x ELSE x

Min(a, b) == IF a <= b THEN a ELSE b

RECURSIVE SumSeq(_)
SumSeq(s) == IF s = <<>> THEN 0 ELSE Head(s) + SumSeq(Tail(s))

\* An optional value (Python's None, or a value): a sequence of length 0 or 1.
None == <<>>
Some(v) == <<v>>

\* What a call does: it returns shares, or it raises.
Ok(shares) == [status |-> "ok", shares |-> shares]
Raise(kind) == [status |-> kind, shares |-> <<>>]

\* ------------------------------------------------- binary64 arithmetic

\* <<share, denominator, total, e>>: the binary64 value of
\* (share / denominator) * total (for denominator 10000: of
\* (p / 100) * total, p the double nearest to share/100) is
\* share*total/denominator + e', with e = floor(e' * 2^60).  Rows with e = 0
\* (the double is exact) are left out.  IEEE 754 round-to-nearest-even, the
\* operations in the order the source writes them; the rows cover every
\* input of the domains above with up to MaxSplits + 1 splits.
Binary64ErrTable ==
    { <<1, 3, -100, 5461>>, <<1, 3, 2, -43>>, <<1, 3, 100, -5462>>,
      <<1, 3, 40000, -1398102>>, <<1, 5, 2, 25>>, <<4, 5, 2, 102>>,
      <<1, 6, -100, 2730>>, <<1, 6, 2, -22>>, <<1, 6, 100, -2731>>,
      <<1, 6, 40000, -699051>>, <<4, 6, -100, 10922>>, <<4, 6, 2, -86>>,
      <<4, 6, 100, -10923>>, <<4, 6, 40000, -2796203>>, <<1, 7, -100, 1170>>,
      <<1, 7, 2, -19>>, <<1, 7, 100, -1171>>, <<1, 7, 40000, -599187>>,
      <<4, 7, -100, 4681>>, <<4, 7, 2, -74>>, <<4, 7, 100, -4682>>,
      <<4, 7, 40000, -2396746>>, <<1, 9, -100, 455>>, <<1, 9, 2, -15>>,
      <<1, 9, 100, -456>>, <<1, 9, 40000, -116509>>, <<4, 9, -100, 1820>>,
      <<4, 9, 2, -57>>, <<4, 9, 100, -1821>>, <<4, 9, 40000, -466034>>,
      <<1, 10, 2, 12>>, <<4, 10, 2, 51>>, <<1, 12, -100, 1365>>,
      <<1, 12, 2, -11>>, <<1, 12, 100, -1366>>, <<1, 12, 40000, -349526>>,
      <<4, 12, -100, 5461>>, <<4, 12, 2, -43>>, <<4, 12, 100, -5462>>,
      <<4, 12, 40000, -1398102>>, <<1, 13, -100, -237>>, <<1, 13, 2, 9>>,
      <<1, 13, 100, 236>>, <<1, 13, 40000, 241979>>, <<4, 13, -100, -946>>,
      <<4, 13, 2, 39>>, <<4, 13, 100, 945>>, <<4, 13, 40000, 967916>>,
      <<3333, 10000, -100, 1966>>, <<3333, 10000, 2, -35>>, <<3333, 10000, 100, -1967>>,
      <<3334, 10000, -100, -3933>>, <<3334, 10000, 2, 68>>, <<3334, 10000, 100, 3932>>,
      <<3334, 10000, 40000, 2097152>>, <<5001, 10000, -100, 2293>>, <<5001, 10000, 2, -26>>,
      <<5001, 10000, 100, -2294>> }

Binary64Err(share, denominator, total) ==
    LET rows == {r \in Binary64ErrTable :
                    r[1] = share /\ r[2] = denominator /\ r[3] = total}
    IN  IF rows = {} THEN 0 ELSE (CHOOSE r \in rows : TRUE)[4]

\* (share / denominator) * total as the source's double.
ExactAmount(share, denominator, total) ==
    [num |-> share * total, den |-> denominator,
     err |-> Binary64Err(share, denominator, total)]

\* A double a hair under an integer floors to the integer below.
RoundsBelow(x) == x.num % x.den = 0 /\ x.err < 0

\* math.floor(a)
Floor(x) == IF RoundsBelow(x) THEN (x.num \div x.den) - 1 ELSE x.num \div x.den

\* exact_amounts[i] - base_amounts[i], as <<numerator over den, err>>:
\* compared lexicographically, err being far below 1/den.
Fraction(x) ==
    IF RoundsBelow(x) THEN <<x.den, x.err>> ELSE <<x.num % x.den, x.err>>

FractionLess(f, g) == f[1] < g[1] \/ (f[1] = g[1] /\ f[2] < g[2])

\* ------------------------------------------------------- normalization

\* _normalize_equal with the extra unit handed to one participant too few.
NormalizeEqualShortRemainder(count, total) ==
    LET base == total \div count
        remainder == total - base * count
    IN  Ok([i \in 1..count |-> IF i < remainder THEN base + 1 ELSE base])

\* _normalize_equal: base to everyone, one more to the first `remainder`.
_normalize_equal(count, total) ==
    LET base == total \div count
        remainder == total - base * count
    IN  Ok([i \in 1..count |-> IF i <= remainder THEN base + 1 ELSE base])

\* fractional_parts.sort(key = (-fraction, index)): the indices 1..n, an
\* index inserted after every index that sorts before it.
PartBefore(fraction, j, i) ==
    \/ FractionLess(fraction[i], fraction[j])
    \/ fraction[j] = fraction[i] /\ j < i

InsertPart(sorted, i, fraction) ==
    LET p == Cardinality({q \in 1..Len(sorted) :
                             PartBefore(fraction, sorted[q], i)})
    IN  SubSeq(sorted, 1, p) \o <<i>> \o SubSeq(sorted, p + 1, Len(sorted))

RECURSIVE SortedParts(_, _)
SortedParts(n, fraction) ==
    IF n = 0 THEN <<>>
    ELSE InsertPart(SortedParts(n - 1, fraction), n, fraction)

\* The largest-remainder tail shared by _normalize_percentage and
\* _normalize_weight: floor each exact amount, then one more unit to the
\* first `remainder` splits of fractional_parts.  fractional_parts[i] with
\* i beyond the list raises IndexError; a remainder <= 0 awards nothing.
Apportion(exact_amounts, total) ==
    LET n == Len(exact_amounts)
        base_amounts == [i \in 1..n |-> Floor(exact_amounts[i])]
        remainder == total - SumSeq(base_amounts)
        fraction == [i \in 1..n |-> Fraction(exact_amounts[i])]
        fractional_parts == SortedParts(n, fraction)
    IN  IF remainder > n THEN Raise("IndexError")
        ELSE Ok([i \in 1..n |->
                    IF \E k \in 1..remainder : fractional_parts[k] = i
                    THEN base_amounts[i] + 1 ELSE base_amounts[i]])

\* 100 percent, and the tolerance 0.01 + 100 ulp, in hundredths of a point.
FullPercentage == 10000
Tolerance == 1

_normalize_percentage(stable_splits, total) ==
    LET n == Len(stable_splits)
        total_percentage == SumSeq([i \in 1..n |-> stable_splits[i].share])
    IN  IF Abs(total_percentage - FullPercentage) > Tolerance
        THEN Raise("ValueError")
        ELSE Apportion([i \in 1..n |->
                           ExactAmount(stable_splits[i].share, FullPercentage, total)],
                       total)

_normalize_weight(stable_splits, total) ==
    LET n == Len(stable_splits)
        total_weight == SumSeq([i \in 1..n |-> stable_splits[i].share])
    IN  IF total_weight <= 0
        THEN Raise("ValueError")
        ELSE Apportion([i \in 1..n |->
                           ExactAmount(stable_splits[i].share, total_weight, total)],
                       total)

_normalize_amount(stable_splits, total) ==
    LET n == Len(stable_splits)
        missing_amounts == {i \in 1..n : stable_splits[i].amount = None}
        amounts == [i \in 1..n |-> stable_splits[i].amount[1]]
    IN  IF missing_amounts # {} THEN Raise("ValueError")
        ELSE IF SumSeq(amounts) # total THEN Raise("ValueError")
        ELSE Ok(amounts)

\* sorted(..., key = (participantId, originalIndex)): the original indices
\* in canonical order, by insertion.
\* The sort key without the participant: the caller's order is kept.
StableBeforeInputOrder(splits, j, i) == j < i

StableBefore(splits, j, i) ==
    \/ splits[j].participantId < splits[i].participantId
    \/ splits[j].participantId = splits[i].participantId /\ j < i

InsertStable(sorted, i, splits) ==
    LET p == Cardinality({q \in 1..Len(sorted) :
                             StableBefore(splits, sorted[q], i)})
    IN  SubSeq(sorted, 1, p) \o <<i>> \o SubSeq(sorted, p + 1, Len(sorted))

RECURSIVE StableOrder(_, _)
StableOrder(n, splits) ==
    IF n = 0 THEN <<>>
    ELSE InsertStable(StableOrder(n - 1, splits), n, splits)

\* The strategy of share_type on the canonical order.
Dispatch(share_type, stable_splits, expense_amount) ==
    CASE share_type = "equal" ->
            _normalize_equal(Len(stable_splits), expense_amount)
      [] share_type = "percentage" ->
            _normalize_percentage(stable_splits, expense_amount)
      [] share_type = "weight" ->
            _normalize_weight(stable_splits, expense_amount)
      [] share_type = "amount" ->
            _normalize_amount(stable_splits, expense_amount)
      [] OTHER -> Raise("ValueError")

\* normalized[stable[k].originalIndex] = stable_normalized[k]
Scatter(stable, stable_normalized) ==
    [i \in 1..Len(stable) |->
        stable_normalized[CHOOSE k \in 1..Len(stable) : stable[k] = i]]

normalize_shares(splits, expense_amount) ==
    IF splits = <<>> THEN Ok(<<>>)
    ELSE IF expense_amount = 0 THEN Ok([i \in 1..Len(splits) |-> 0])
    ELSE IF \E i \in 1..Len(splits) : splits[i].shareType # splits[1].shareType
    THEN Raise("ValueError")
    ELSE LET stable == StableOrder(Len(splits), splits)
             stable_splits == [k \in 1..Len(splits) |-> splits[stable[k]]]
             r == Dispatch(splits[1].shareType, stable_splits, expense_amount)
         IN  IF r.status = "ok" THEN Ok(Scatter(stable, r.shares)) ELSE r

\* ------------------------------------------------------- settlement

\* balances.items(): the entries in the dict's order, which is the order of
\* the ledger's participants, 1..n here.
Items(bal) == [i \in 1..Len(bal) |-> [id |-> i, amount |-> bal[i]]]

\* amount <= 0: a settled participant is taken for a debtor.
IsDebtorOrSettled(amount) == amount <= 0

IsDebtor(amount) == amount < 0

IsCreditor(amount) == amount > 0

\* The sort reversed: x goes after every entry that is not smaller.
InsertSmallestDebtFirst(sorted, x) ==
    LET p == Cardinality({q \in 1..Len(sorted) : sorted[q].amount >= x.amount})
    IN  SubSeq(sorted, 1, p) \o <<x>> \o SubSeq(sorted, p + 1, Len(sorted))

\* list.sort(key = amount) is stable: x goes after every entry that is not
\* larger.
InsertAscending(sorted, x) ==
    LET p == Cardinality({q \in 1..Len(sorted) : sorted[q].amount <= x.amount})
    IN  SubSeq(sorted, 1, p) \o <<x>> \o SubSeq(sorted, p + 1, Len(sorted))

\* list.sort(key = amount, reverse = True) keeps equal entries in their
\* order: x goes after every entry that is not smaller.
InsertDescending(sorted, x) ==
    LET p == Cardinality({q \in 1..Len(sorted) : sorted[q].amount >= x.amount})
    IN  SubSeq(sorted, 1, p) \o <<x>> \o SubSeq(sorted, p + 1, Len(sorted))

RECURSIVE SortAscending(_)
SortAscending(s) ==
    IF s = <<>> THEN <<>>
    ELSE InsertAscending(SortAscending(SubSeq(s, 1, Len(s) - 1)), s[Len(s)])

RECURSIVE SortDescending(_)
SortDescending(s) ==
    IF s = <<>> THEN <<>>
    ELSE InsertDescending(SortDescending(SubSeq(s, 1, Len(s) - 1)), s[Len(s)])

\* participants.get(id, "Unknown")
NameOf(names, id) == IF id \in DOMAIN names THEN names[id] ELSE "Unknown"

\* The whole of what the debtor owes, whatever the creditor is owed.
SettleAmountDebtorOnly(debtor, creditor) == Abs(debtor.amount)

\* min(abs(debtor['amount']), creditor['amount'])
SettleAmount(debtor, creditor) == Min(Abs(debtor.amount), creditor.amount)

\* abs(amount) < 0: never.
DebtorSettledNever(amount) == Abs(amount) < 0

\* abs(debtor['amount']) < 1
DebtorSettled(amount) == Abs(amount) < 1

\* creditor['amount'] < 1
CreditorSettled(amount) == amount < 1

\* ------------------------------------------------- balance accumulation

\* if paid_by in balances: balances[paid_by] += amount
Credit(bal, paid_by, amount) ==
    [id \in 1..Len(bal) |-> IF id = paid_by THEN bal[id] + amount ELSE bal[id]]

\* for p_id, share_amount in split_details:
\*     if p_id in balances: balances[p_id] -= share_amount
RECURSIVE Debit(_, _, _)
Debit(bal, list, shares) ==
    IF list = <<>> THEN bal
    ELSE Debit([id \in 1..Len(bal) |->
                   IF id = Head(list).participantId THEN bal[id] - Head(shares)
                   ELSE bal[id]],
               Tail(list), Tail(shares))

\* The payer credited although normalize_shares raised.
AfterFailureCredited(bal, expense) == Credit(bal, expense.paidBy, expense.amount)

\* except Exception: ...; continue -- the balances are not touched.
AfterFailure(bal, expense) == bal

\* What the loop body meets for an expense: no splits (continue), a raise
\* of normalize_shares (continue), shares that do not sum to the amount
\* (reported, not accumulated), or verified shares.
Outcome(expense) ==
    IF expense.splits = <<>> THEN "no splits"
    ELSE LET r == normalize_shares(expense.splits, expense.amount)
         IN  IF r.status # "ok" THEN "failed"
             ELSE IF expense.amount - SumSeq(r.shares) # 0 THEN "diff"
             ELSE "valid"

\* ---------------------------------------------------------------- state

VARIABLES
    pc,                   \* where the program is
    \* one call of normalize_shares, and a second on a permutation of its input
    splits,               \* the caller's split list
    expense_amount,       \* the expense total
    normalized,           \* what normalize_shares(splits, expense_amount) did
    permutation,          \* permuted input k is splits[permutation[k]]
    permuted_normalized,  \* what normalize_shares did on the permuted input
    \* verify_and_calculate_trip
    participants,         \* id -> name
    expenses,             \* the ledger's expenses, each with its splits
    next_expense,         \* the expense the loop is at
    balances,             \* id -> running balance
    \* resolve_debts
    debtors, creditors,   \* the sorted lists of {id, amount}
    d_idx, c_idx,         \* the two pointers
    settlements,          \* the transfers emitted
    run                   \* 1: the call, 2: the call again on the settled balances

vars == <<pc, splits, expense_amount, normalized, permutation,
          permuted_normalized, participants, expenses, next_expense, balances,
          debtors, creditors, d_idx, c_idx, settlements, run>>

normalizer_vars == <<splits, expense_amount, normalized, permutation,
                     permuted_normalized>>
trip_vars == <<expenses, next_expense>>
resolver_vars == <<debtors, creditors, d_idx, c_idx, settlements, run>>

Pending == [status |-> "pending", shares |-> <<>>]

NormalizerIdle ==
    /\ splits = <<>> /\ expense_amount = 0
    /\ normalized = Pending /\ permutation = <<>>
    /\ permuted_normalized = Pending

TripIdle == expenses = <<>> /\ next_expense = 1

ResolverIdle ==
    /\ debtors = <<>> /\ creditors = <<>> /\ d_idx = 1 /\ c_idx = 1
    /\ settlements = <<>> /\ run = 1

\* ------------------------------------------- the normalizer's inputs

Split(pid, type, share, amount) ==
    [participantId |-> pid, shareType |-> type, share |-> share, amount |-> amount]

\* The share and amount fields a split of a type may carry.
Fields(type, pct, weights, amounts) ==
    CASE type = "percentage" -> {<<s, None>> : s \in pct}
      [] type = "weight" -> {<<s, None>> : s \in weights}
      [] type = "amount" -> {<<0, a>> : a \in {None} \cup {Some(v) : v \in amounts}}
      [] OTHER -> {<<1, None>>}

\* Lists of up to MaxSplits splits of one share type, in every order and
\* with every assignment of participants (repeats included).
UniformLists(pct, weights, amounts) ==
    UNION {
        {[i \in 1..n |-> Split(pid[i], type, f[i][1], f[i][2])] :
            pid \in [1..n -> Pids], f \in [1..n -> Fields(type, pct, weights, amounts)]}
        : n \in 0..MaxSplits, type \in ShareTypes}

\* Lists whose splits disagree on the share type: equal splits, one replaced.
MixedLists ==
    UNION {
        {[i \in 1..n |-> IF i = j THEN Split(pid[i], type, 1, Some(40))
                         ELSE Split(pid[i], "equal", 1, None)] :
            pid \in [1..n -> Pids], j \in 1..n,
            type \in {"percentage", "weight", "amount"}}
        : n \in 2..MaxSplits}

RECURSIVE Orderings(_)
Orderings(n) ==
    IF n = 0 THEN {<<>>}
    ELSE UNION {{SubSeq(p, 1, k) \o <<n>> \o SubSeq(p, k + 1, n - 1) : k \in 0..(n - 1)}
                : p \in Orderings(n - 1)}

Permuted(list, p) == [k \in 1..Len(list) |-> list[p[k]]]

\* ------------------------------------------- the normalizer's actions

InitNormalize ==
    /\ pc = "input"
    /\ splits \in UniformLists(PctShares, WeightShares, Amounts) \cup MixedLists
    /\ expense_amount \in Totals
    /\ normalized = Pending /\ permutation = <<>>
    /\ permuted_normalized = Pending
    /\ participants = <<>> /\ balances = <<>>
    /\ TripIdle /\ ResolverIdle

\* normalize_shares(splits, expense_amount)
Normalize ==
    /\ pc = "input"
    /\ normalized' = normalize_shares(splits, expense_amount)
    /\ pc' = "normalized"
    /\ UNCHANGED <<splits, expense_amount, permutation, permuted_normalized,
                   participants, balances, trip_vars, resolver_vars>>

NextNormalize == Normalize

SpecNormalize == InitNormalize /\ [][NextNormalize]_vars

\* The same call twice, the second on a permutation of the list: the shares
\* that tie (or nearly tie) in their fractional parts, every order, every
\* assignment of participants.
OrderPctShares == {3333, 3334}
OrderWeightShares == {1, 4}
OrderTotals == {-100, 2, 100}

InitOrder ==
    /\ pc = "input"
    /\ splits \in UniformLists(OrderPctShares, OrderWeightShares, Amounts)
    /\ expense_amount \in OrderTotals
    /\ normalized = Pending /\ permutation = <<>>
    /\ permuted_normalized = Pending
    /\ participants = <<>> /\ balances = <<>>
    /\ TripIdle /\ ResolverIdle

\* normalize_shares on a permutation of the same list, same total
NormalizePermuted ==
    /\ pc = "normalized"
    /\ \E p \in Orderings(Len(splits)) :
          /\ permutation' = p
          /\ permuted_normalized' =
                normalize_shares(Permuted(splits, p), expense_amount)
    /\ pc' = "permuted"
    /\ UNCHANGED <<splits, expense_amount, normalized,
                   participants, balances, trip_vars, resolver_vars>>

NextOrder == Normalize \/ NormalizePermuted

SpecOrder == InitOrder /\ [][NextOrder]_vars

\* ------------------------------------------- claims on the normalizer

AllOfType(list, type) == \A i \in 1..Len(list) : list[i].shareType = type

\* How many splits precede split i in canonical order: by participant
\* identifier, then by input position.
CanonicalRank(list, i) ==
    Cardinality({j \in 1..Len(list) :
        \/ list[j].participantId < list[i].participantId
        \/ list[j].participantId = list[i].participantId /\ j < i})

\* The total a participant is assigned over the splits that name it.
ShareOf(list, shares, pid) ==
    SumSeq([i \in 1..Len(list) |->
               IF list[i].participantId = pid THEN shares[i] ELSE 0])

Returned == pc = "normalized" /\ normalized.status = "ok"

\* C1: whenever normalize_shares returns for a non-empty split list and a
\* total T # 0, of whichever share type, the returned shares sum to T.
C1_SumInvariant ==
    (Returned /\ splits # <<>> /\ expense_amount # 0)
        => SumSeq(normalized.shares) = expense_amount

\* C9: for n >= 1 equal splits and T # 0, with base = T div n and
\* remainder = T - base*n, normalize_shares returns base for every split and
\* base + 1 for exactly the splits among the first `remainder` in canonical
\* order; three equal splits of 100 get 34, 33, 33 in canonical order.
C9_EqualSplit ==
    (pc = "normalized" /\ splits # <<>> /\ expense_amount # 0
        /\ AllOfType(splits, "equal"))
    => LET n == Len(splits)
           base == expense_amount \div n
           remainder == expense_amount - base * n
       IN  /\ normalized.status = "ok"
           /\ Len(normalized.shares) = n
           /\ \A i \in 1..n :
                normalized.shares[i] =
                    IF CanonicalRank(splits, i) < remainder THEN base + 1 ELSE base
           /\ (n = 3 /\ expense_amount = 100) =>
                \A i \in 1..n :
                    normalized.shares[i] =
                        IF CanonicalRank(splits, i) = 0 THEN 34 ELSE 33

\* Three participants given out of canonical order share 100: the canonical
\* first, second in the input, gets the extra unit.
C9_Witness ==
    /\ pc = "normalized" /\ AllOfType(splits, "equal") /\ Len(splits) = 3
    /\ expense_amount = 100
    /\ [i \in 1..3 |-> splits[i].participantId] = <<3, 1, 2>>
    /\ normalized.shares = <<33, 34, 33>>

\* The real-valued proportional amount of split i, as numerator over
\* denominator: share/100 of T for percentages (shares in hundredths),
\* share/sum of shares of T for weights.
Denominator(list) ==
    IF list[1].shareType = "percentage" THEN FullPercentage
    ELSE SumSeq([i \in 1..Len(list) |-> list[i].share])

RealFloor(list, T, i) == (list[i].share * T) \div Denominator(list)

RealRemainder(list, T, i) == (list[i].share * T) % Denominator(list)

\* How many splits precede split i by descending fractional remainder, ties
\* by ascending canonical index.
RemainderRank(list, T, i) ==
    Cardinality({j \in 1..Len(list) :
        \/ RealRemainder(list, T, j) > RealRemainder(list, T, i)
        \/ /\ RealRemainder(list, T, j) = RealRemainder(list, T, i)
           /\ CanonicalRank(list, j) < CanonicalRank(list, i)})

\* C10: for accepted percentage and weight splits, each result is
\* floor(exact) or floor(exact) + 1 with exact = proportion * T, the extra
\* units going to exactly the first T - sum of floors splits by descending
\* fractional remainder, ties by ascending canonical index; percentages
\* 33.34, 33.33, 33.33 of 100 give 34, 33, 33.
C10_LargestRemainder ==
    (Returned /\ splits # <<>> /\ expense_amount # 0
        /\ (AllOfType(splits, "percentage") \/ AllOfType(splits, "weight")))
    => LET n == Len(splits)
           T == expense_amount
           extras == T - SumSeq([i \in 1..n |-> RealFloor(splits, T, i)])
       IN  \A i \in 1..n :
              normalized.shares[i] =
                  IF RemainderRank(splits, T, i) < extras
                  THEN RealFloor(splits, T, i) + 1
                  ELSE RealFloor(splits, T, i)

\* ------------------------------------------- claims on input order

\* C2: normalize_shares on a permutation of a split list, same total, does
\* what it does on the list: it raises for both or returns for both, every
\* participant is assigned the same amount, and a split whose participant
\* occurs once gets its amount at its new position.
C2_OrderInvariance ==
    pc = "permuted" =>
        LET other == Permuted(splits, permutation)
        IN  /\ permuted_normalized.status = normalized.status
            /\ normalized.status = "ok" =>
                /\ \A pid \in Pids :
                      ShareOf(other, permuted_normalized.shares, pid)
                          = ShareOf(splits, normalized.shares, pid)
                /\ \A k \in 1..Len(splits) :
                      (Cardinality({j \in 1..Len(splits) :
                            splits[j].participantId = other[k].participantId}) = 1)
                      => permuted_normalized.shares[k]
                            = normalized.shares[permutation[k]]

\* Weights 1, 1, 4 for participants 1, 2, 3, permuted to 4, 1, 1: the
\* shares move with their participants.
C2_Witness ==
    /\ pc = "permuted" /\ AllOfType(splits, "weight") /\ expense_amount = 100
    /\ [i \in 1..Len(splits) |-> <<splits[i].participantId, splits[i].share>>]
          = <<<<1, 1>>, <<2, 1>>, <<3, 4>>>>
    /\ permutation = <<3, 1, 2>>
    /\ normalized.status = "ok"
    /\ permuted_normalized.shares
          = [k \in 1..3 |-> normalized.shares[permutation[k]]]
    /\ permuted_normalized.shares # normalized.shares

\* ------------------------------------------- resolve_debts, step by step

\* Lines 139-156: partition, sort, reset the pointers.
Enter ==
    /\ pc = "call"
    /\ debtors' = SortAscending(SelectSeq(Items(balances),
                                          LAMBDA x : IsDebtor(x.amount)))
    /\ creditors' = SortDescending(SelectSeq(Items(balances),
                                             LAMBDA x : IsCreditor(x.amount)))
    /\ settlements' = <<>>
    /\ d_idx' = 1 /\ c_idx' = 1
    /\ pc' = "loop"
    /\ UNCHANGED <<normalizer_vars, trip_vars, participants, balances, run>>

\* Lines 158-185: one iteration of the two-pointer loop.
LoopStep ==
    /\ pc = "loop"
    /\ d_idx <= Len(debtors) /\ c_idx <= Len(creditors)
    /\ LET debtor == debtors[d_idx]
           creditor == creditors[c_idx]
           amount == SettleAmount(debtor, creditor)
       IN  /\ settlements' = Append(settlements,
                  [from |-> NameOf(participants, debtor.id),
                   to |-> NameOf(participants, creditor.id),
                   amount |-> amount])
           /\ debtors' = [debtors EXCEPT ![d_idx].amount = @ + amount]
           /\ creditors' = [creditors EXCEPT ![c_idx].amount = @ - amount]
           /\ d_idx' = IF DebtorSettled(debtor.amount + amount)
                       THEN d_idx + 1 ELSE d_idx
           /\ c_idx' = IF CreditorSettled(creditor.amount - amount)
                       THEN c_idx + 1 ELSE c_idx
    /\ UNCHANGED <<pc, normalizer_vars, trip_vars, participants, balances, run>>

\* Line 187: a pointer ran off its list.
Return ==
    /\ pc = "loop"
    /\ ~(d_idx <= Len(debtors) /\ c_idx <= Len(creditors))
    /\ pc' = "returned"
    /\ UNCHANGED <<normalizer_vars, trip_vars, resolver_vars, participants,
                   balances>>

\* What a participant pays and receives over a settlement list; the
\* settlements name their parties by display name.
Paid(names, list, id) ==
    SumSeq([k \in 1..Len(list) |->
               IF list[k].from = NameOf(names, id) THEN list[k].amount ELSE 0])

Received(names, list, id) ==
    SumSeq([k \in 1..Len(list) |->
               IF list[k].to = NameOf(names, id) THEN list[k].amount ELSE 0])

\* Every settlement applied: payer balance += amount, payee balance -= amount.
Applied(bal, names, list) ==
    [id \in 1..Len(bal) |->
        bal[id] + Paid(names, list, id) - Received(names, list, id)]

\* resolve_debts called again, on the balances its settlements leave.
Rerun ==
    /\ pc = "returned" /\ run = 1
    /\ balances' = Applied(balances, participants, settlements)
    /\ run' = 2
    /\ pc' = "call"
    /\ UNCHANGED <<normalizer_vars, trip_vars, participants, debtors,
                   creditors, d_idx, c_idx, settlements>>

\* Any balance map of up to NumParticipants participants; every participant
\* named, or the last one missing from the names.
InitResolve ==
    /\ pc = "call"
    /\ \E n \in 0..NumParticipants :
          /\ balances \in [1..n -> BalanceValues]
          /\ participants \in {SubSeq(Names, 1, n)}
                \cup {SubSeq(Names, 1, n - 1) : k \in {m \in {n} : m > 0}}
    /\ NormalizerIdle /\ TripIdle /\ ResolverIdle

NextResolve == Enter \/ LoopStep \/ Return \/ Rerun

SpecResolve == InitResolve /\ [][NextResolve]_vars

\* ------------------------------------------- claims on resolve_debts

NumDebtors(bal) == Cardinality({id \in 1..Len(bal) : bal[id] < 0})

NumCreditors(bal) == Cardinality({id \in 1..Len(bal) : bal[id] > 0})

TotalTransferred(list) == SumSeq([k \in 1..Len(list) |-> list[k].amount])

\* C3: for balances that sum to zero, applying every settlement emitted
\* leaves every balance at zero, and no participant pays or receives in
\* total more than the magnitude of their balance.
C3_SettlementCorrectness ==
    (pc = "returned" /\ SumSeq(balances) = 0)
    => /\ \A id \in 1..Len(balances) :
             Applied(balances, participants, settlements)[id] = 0
       /\ \A id \in 1..Len(balances) :
             Paid(participants, settlements, id)
                + Received(participants, settlements, id) <= Abs(balances[id])

\* Two debtors and a creditor beside a settled participant, zero in sum:
\* two transfers clear them.
C3_Witness ==
    /\ pc = "returned" /\ run = 1
    /\ balances = <<-50, -30, 80, 0>>
    /\ Len(settlements) = 2
    /\ Applied(balances, participants, settlements) = <<0, 0, 0, 0>>

\* C4 as stated: never more than d + c - 1 settlements, for every balance
\* map with d debtors and c creditors.
C4_BoundForEveryMap ==
    pc = "returned" =>
        Len(settlements) <= NumDebtors(balances) + NumCreditors(balances) - 1

\* What the loop has left: the entries from the two pointers on.
Remaining == (Len(debtors) + 1 - d_idx) + (Len(creditors) + 1 - c_idx)

\* C4: for every balance map with at least one debtor or creditor
\* resolve_debts emits no more than d + c - 1 settlements, and none with
\* neither; the loop terminates: every iteration leaves fewer entries
\* ahead of the two pointers, which never run past the ends of the lists,
\* and once a pointer is at the end the function returns.
C4_SettlementBound ==
    /\ [](pc \in {"loop", "returned"} =>
            LET dc == NumDebtors(balances) + NumCreditors(balances)
            IN  /\ Len(settlements) <= IF dc = 0 THEN 0 ELSE dc - 1
                /\ d_idx <= Len(debtors) + 1 /\ c_idx <= Len(creditors) + 1)
    /\ [][(pc = "loop" /\ pc' = "loop") => Remaining' < Remaining]_vars
    /\ [](pc = "loop" => ENABLED (LoopStep \/ Return))

\* Two debtors against two creditors: three settlements, the bound met.
C4_Witness ==
    /\ pc = "returned" /\ run = 1
    /\ NumDebtors(balances) = 2 /\ NumCreditors(balances) = 2
    /\ Len(settlements) = 3

\* C7: resolve_debts run again on the balances its settlements leave emits
\* no settlement.
C7_Idempotence ==
    (run = 2 /\ pc \in {"loop", "returned"}) => settlements = <<>>

\* The second run returned, on balances that the first run's settlements
\* changed and that still hold an imbalance.
C7_Witness ==
    /\ run = 2 /\ pc = "returned" /\ settlements = <<>>
    /\ \E id \in 1..Len(balances) : balances[id] = -49
    /\ \E id \in 1..Len(balances) : balances[id] = 0

ExampleBalances == <<-50, -30, 80>>

\* C8 as stated: for {A:-50, B:-30, C:80} exactly one settlement, 80 in
\* total.
C8_OneSettlement ==
    (pc = "returned" /\ run = 1 /\ balances = ExampleBalances)
    => Len(settlements) = 1 /\ TotalTransferred(settlements) = 80

\* C8: for {A:-50, B:-30, C:80} resolve_debts emits exactly two
\* settlements, one for each debtor against the single creditor, the larger
\* debt first: A pays C 50, then B pays C 30, 80 in total.
C8_TwoSettlements ==
    (pc = "returned" /\ run = 1 /\ balances = ExampleBalances
        /\ participants = <<"A", "B", "C">>)
    => /\ settlements = <<[from |-> "A", to |-> "C", amount |-> 50],
                          [from |-> "B", to |-> "C", amount |-> 30]>>
       /\ TotalTransferred(settlements) = 80

C8_Witness ==
    /\ pc = "returned" /\ run = 1 /\ balances = ExampleBalances
    /\ participants = <<"A", "B", "C">>
    /\ Len(settlements) = 2

\* ------------------------------------------- verify_and_calculate_trip

\* The ledger: participants 1 and 2; identifier 3 is no participant.
TripNames == <<"A", "B">>
TripPayers == {1, 2, 3}
TripAmounts == {100, 40000}

\* [s for s in expenseSplits if s['expenseId'] == exp_id], for the ledger's
\* expenses: equal shares, equal shares with a stranger, percentages that
\* sum to 100.01, percentages that sum to 99.99 (one participant named
\* twice), explicit amounts, an explicit amount missing, no splits.
TripSplitLists ==
    { <<Split(1, "equal", 1, None), Split(2, "equal", 1, None)>>,
      <<Split(2, "equal", 1, None), Split(3, "equal", 1, None)>>,
      <<Split(1, "percentage", 5000, None), Split(2, "percentage", 5001, None)>>,
      <<Split(1, "percentage", 3333, None), Split(2, "percentage", 3333, None),
        Split(1, "percentage", 3333, None)>>,
      <<Split(1, "amount", 0, Some(40)), Split(2, "amount", 0, Some(60))>>,
      <<Split(1, "amount", 0, Some(40)), Split(2, "amount", 0, None)>>,
      <<>> }

TripExpenses ==
    {[amount |-> a, paidBy |-> p, splits |-> l] :
        a \in TripAmounts, p \in TripPayers, l \in TripSplitLists}

InitTrip ==
    /\ pc = "expenses"
    /\ participants = TripNames
    /\ balances = [id \in 1..Len(TripNames) |-> 0]
    /\ \E n \in 0..MaxExpenses : expenses \in [1..n -> TripExpenses]
    /\ next_expense = 1
    /\ NormalizerIdle /\ ResolverIdle

AtExpense == pc = "expenses" /\ next_expense <= Len(expenses)

\* Lines 226-227: an expense without splits is passed over.
SkipNoSplits ==
    /\ AtExpense
    /\ Outcome(expenses[next_expense]) = "no splits"
    /\ next_expense' = next_expense + 1
    /\ UNCHANGED <<pc, normalizer_vars, resolver_vars, participants, expenses,
                   balances>>

\* Lines 232-236: normalize_shares raised; the loop goes on.
SkipFailed ==
    /\ AtExpense
    /\ Outcome(expenses[next_expense]) = "failed"
    /\ balances' = AfterFailure(balances, expenses[next_expense])
    /\ next_expense' = next_expense + 1
    /\ UNCHANGED <<pc, normalizer_vars, resolver_vars, participants, expenses>>

\* Lines 238-249: the shares do not sum to the amount; nothing accumulates.
SkipInvalid ==
    /\ AtExpense
    /\ Outcome(expenses[next_expense]) = "diff"
    /\ next_expense' = next_expense + 1
    /\ UNCHANGED <<pc, normalizer_vars, resolver_vars, participants, expenses,
                   balances>>

\* Lines 238-254: verified shares: the payer is credited, the participants
\* are debited.
Accumulate ==
    /\ AtExpense
    /\ Outcome(expenses[next_expense]) = "valid"
    /\ LET expense == expenses[next_expense]
           normalized_amounts == normalize_shares(expense.splits, expense.amount).shares
       IN  balances' = Debit(Credit(balances, expense.paidBy, expense.amount),
                             expense.splits, normalized_amounts)
    /\ next_expense' = next_expense + 1
    /\ UNCHANGED <<pc, normalizer_vars, resolver_vars, participants, expenses>>

\* Line 264: the expenses are done; resolve_debts(balances, participants).
Settle ==
    /\ pc = "expenses" /\ next_expense > Len(expenses)
    /\ pc' = "call"
    /\ UNCHANGED <<normalizer_vars, trip_vars, resolver_vars, participants,
                   balances>>

NextTrip ==
    \/ SkipNoSplits \/ SkipFailed \/ SkipInvalid \/ Accumulate \/ Settle
    \/ Enter \/ LoopStep \/ Return

SpecTrip == InitTrip /\ [][NextTrip]_vars

\* ------------------------------------------- claims on the accumulation

Failed(expense) == Outcome(expense) = "failed"

\* The balances a ledger accumulates to, expense by expense from zero.
RECURSIVE Replay(_, _)
Replay(bal, ledger) ==
    IF ledger = <<>> THEN bal
    ELSE LET expense == Head(ledger)
             shares == normalize_shares(expense.splits, expense.amount).shares
         IN  Replay(IF Outcome(expense) = "valid"
                    THEN Debit(Credit(bal, expense.paidBy, expense.amount),
                               expense.splits, shares)
                    ELSE bal,
                    Tail(ledger))

Zero == [id \in 1..Len(TripNames) |-> 0]

\* C5: when normalize_shares raises for an expense, no balance changes and
\* the loop goes on to the next expense; once the expenses are done the
\* balances are those of the same ledger with the failed expenses removed.
C5_FailedExpenseExcluded ==
    /\ [][(AtExpense /\ Failed(expenses[next_expense]))
             => /\ balances' = balances
                /\ next_expense' = next_expense + 1
                /\ pc' = "expenses"]_vars
    /\ []((pc # "expenses" \/ next_expense > Len(expenses))
            => balances = Replay(Zero, SelectSeq(expenses, LAMBDA e : ~Failed(e))))

\* A failed expense, then a verified one that was accumulated.
C5_Witness ==
    /\ pc = "expenses" /\ Len(expenses) = 2 /\ next_expense = 3
    /\ Failed(expenses[1])
    /\ Outcome(expenses[2]) = "valid"
    /\ balances = <<50, -50>>

\* C6: in every state of the accumulation pass the balances sum to zero.
C6_DebitsEqualCredits == SumSeq(balances) = 0

====
